---------------------------- MODULE Spec2Model ----------------------------
(***************************************************************************)
(* A model of VectorSearchEngine (src/vector-space-indexing-engine.py):    *)
(* an in-memory TF-IDF / cosine-similarity search engine.                  *)
(*                                                                         *)
(* Representation of Python values                                         *)
(*   str        [type |-> "str", val |-> <<c1, ..., cn>>], a sequence of   *)
(*              one-character strings                                      *)
(*   None       [type |-> "NoneType", val |-> <<>>]                        *)
(*   dict       a sequence of [key, value] records in insertion order      *)
(*              (a Python dict iterates in insertion order and keeps the   *)
(*              position of a key whose value is overwritten)              *)
(*   Counter,   a function from the set of its keys to integers            *)
(*   defaultdict                                                           *)
(*   float      an exact rational <<n, d>>, d > 0, in lowest terms;        *)
(*              math.log is tabulated to two decimal places (LN_SCALE),    *)
(*              and a magnitude sqrt(r) is carried by its radicand r, so   *)
(*              that a similarity x is carried by sign(x) * x^2, a         *)
(*              strictly increasing function of x that keeps its sign,     *)
(*              its zero and its order                                     *)
(*   raise      a result record whose err field holds the message          *)
(***************************************************************************)
EXTENDS Integers, Sequences, FiniteSets, TLC

VARIABLES documents, index, document_frequencies, total_documents, last

vars == <<documents, index, document_frequencies, total_documents, last>>

---------------------------------------------------------------------------
(* Bounds of the model *)

\* number of document ids the caller uses
NumDocIds == 2

\* add_document is not called once it would push a document frequency past this
MaxDocFreq == 3

DocIds == 1..NumDocIds

---------------------------------------------------------------------------
(* Python values *)

PyStr(s) == [type |-> "str", val |-> s]

PyNone == [type |-> "NoneType", val |-> <<>>]

isinstance_str(x) == x.type = "str"

NoErr == "none"

Min(a, b) == IF a <= b THEN a ELSE b

Max(a, b) == IF a >= b THEN a ELSE b

Range(s) == {s[i] : i \in 1..Len(s)}

\* the function f as a table of its values: the same function, which TLC then
\* looks up instead of evaluating [x \in S |-> e] anew at each application
AsTable(f) == f @@ <<>>

\* seq[:n] of Python, for any integer n
SlicePrefix(s, n) ==
    IF n >= 0 THEN SubSeq(s, 1, Min(n, Len(s)))
    ELSE SubSeq(s, 1, Max(0, Len(s) + n))

\* d[k] = v on an insertion-ordered dict
DictSet(d, k, v) ==
    IF \E i \in 1..Len(d) : d[i].key = k
    THEN [i \in 1..Len(d) |-> IF d[i].key = k THEN [key |-> k, value |-> v] ELSE d[i]]
    ELSE Append(d, [key |-> k, value |-> v])

DictKeys(d) == {d[i].key : i \in 1..Len(d)}

DictGet(d, k) == d[CHOOSE i \in 1..Len(d) : d[i].key = k].value

---------------------------------------------------------------------------
(* Characters: str.lower, string.punctuation, the whitespace of str.split *)

UpperCase == <<"A","B","C","D","E","F","G","H","I","J","K","L","M",
               "N","O","P","Q","R","S","T","U","V","W","X","Y","Z">>

LowerCase == <<"a","b","c","d","e","f","g","h","i","j","k","l","m",
               "n","o","p","q","r","s","t","u","v","w","x","y","z">>

LowerOf == AsTable([c \in Range(UpperCase) |->
               LowerCase[CHOOSE i \in 1..Len(UpperCase) : UpperCase[i] = c]])

lower_char(c) == IF c \in DOMAIN LowerOf THEN LowerOf[c] ELSE c

\* string.punctuation, but for the grave accent, which no TLA+ string can hold
\* and no text of the model uses
punctuation ==
    {"!", "\"", "#", "$", "%", "&", "'", "(", ")", "*", "+", ",", "-", ".",
     "/", ":", ";", "<", "=", ">", "?", "@", "[", "\\", "]", "^", "_",
     "{", "|", "}", "~"}

whitespace == {" ", "\t", "\n", "\r", "\f"}

\* text.lower()
lower(s) == AsTable([i \in 1..Len(s) |-> lower_char(s[i])])

\* re.sub('[<punctuation>]', ' ', text)
sub_punctuation(s) ==
    AsTable([i \in 1..Len(s) |-> IF s[i] \in punctuation THEN " " ELSE s[i]])

\* text.split(): the maximal runs of non-whitespace characters, in order.
\* `word` is the run being read, `out` the words already closed.
RECURSIVE split_from(_, _, _, _)
split_from(s, i, word, out) ==
    IF i > Len(s)
    THEN IF word = <<>> THEN out ELSE Append(out, word)
    ELSE IF s[i] \in whitespace
         THEN split_from(s, i + 1, <<>>, IF word = <<>> THEN out ELSE Append(out, word))
         ELSE split_from(s, i + 1, Append(word, s[i]), out)

split(s) == split_from(s, 1, <<>>, <<>>)

\* word.strip()
RECURSIVE lstrip(_)
lstrip(w) == IF w # <<>> /\ Head(w) \in whitespace THEN lstrip(Tail(w)) ELSE w

RECURSIVE rstrip(_)
rstrip(w) ==
    IF w # <<>> /\ w[Len(w)] \in whitespace THEN rstrip(SubSeq(w, 1, Len(w) - 1)) ELSE w

strip(w) == rstrip(lstrip(w))

\* [word.strip() for word in words if word.strip()]
RECURSIVE strip_nonempty(_)
strip_nonempty(words) ==
    IF words = <<>> THEN <<>>
    ELSE IF strip(Head(words)) # <<>>
         THEN <<strip(Head(words))>> \o strip_nonempty(Tail(words))
         ELSE strip_nonempty(Tail(words))

\* VectorSearchEngine.preprocess_text
preprocess_text(text) ==
    IF ~isinstance_str(text)
    THEN [err |-> "Input must be a string", val |-> <<>>]
    ELSE [err |-> NoErr,
          val |-> strip_nonempty(split(sub_punctuation(lower(text.val))))]

\* Counter(tokens)
Counter(tokens) ==
    AsTable([t \in Range(tokens) |-> Cardinality({i \in 1..Len(tokens) : tokens[i] = t})])

\* VectorSearchEngine.create_concordance
create_concordance(text) ==
    LET r == preprocess_text(text)
    IN  IF r.err # NoErr THEN [err |-> r.err, val |-> <<>>]
        ELSE [err |-> NoErr, val |-> Counter(r.val)]

\* sum(f[k] for k in keys)
RECURSIVE SumOver(_, _)
SumOver(f, keys) ==
    IF keys = {} THEN 0
    ELSE LET k == CHOOSE x \in keys : TRUE
         IN  f[k] + SumOver(f, keys \ {k})

\* sum(c.values())
sum_values(c) == SumOver(c, DOMAIN c)

---------------------------------------------------------------------------
(* Floats, as exact rationals <<n, d>> with d > 0 in lowest terms *)

Abs(x) == IF x < 0 THEN -x ELSE x

RECURSIVE GCD(_, _)
GCD(a, b) == IF b = 0 THEN a ELSE GCD(b, a % b)

Rat(n, d) ==
    LET g == GCD(Abs(n), Abs(d))
        sg == IF d < 0 THEN -1 ELSE 1
    IN  <<sg * (n \div g), sg * (d \div g)>>

Zero == <<0, 1>>

RatMul(a, b) ==
    LET g1 == GCD(Abs(a[1]), b[2])
        g2 == GCD(Abs(b[1]), a[2])
    IN  IF a[1] = 0 \/ b[1] = 0 THEN Zero
        ELSE <<(a[1] \div g1) * (b[1] \div g2), (a[2] \div g2) * (b[2] \div g1)>>

RatDiv(a, b) == RatMul(a, Rat(b[2], b[1]))

RatAdd(a, b) ==
    LET l == (a[2] \div GCD(a[2], b[2])) * b[2]
    IN  Rat(a[1] * (l \div a[2]) + b[1] * (l \div b[2]), l)

\* a < b, by the integer parts and then the reciprocals of the fractional parts
\* (no product of a numerator and a denominator is formed)
RECURSIVE RatLess(_, _)
RatLess(a, b) ==
    LET qa == a[1] \div a[2]
        qb == b[1] \div b[2]
        ra == a[1] % a[2]
        rb == b[1] % b[2]
    IN  IF qa # qb THEN qa < qb
        ELSE IF rb = 0 THEN FALSE
        ELSE IF ra = 0 THEN TRUE
        ELSE RatLess(<<b[2], rb>>, <<a[2], ra>>)

RatGreater(a, b) == RatLess(b, a)

\* the sum of r[k] over keys, r a function to rationals
RECURSIVE RatSumOver(_, _)
RatSumOver(r, keys) ==
    IF keys = {} THEN Zero
    ELSE LET k == CHOOSE x \in keys : TRUE
         IN  RatAdd(r[k], RatSumOver(r, keys \ {k}))

\* the precision of the table of logarithms: LN_SCALE * ln(n), rounded
LN_SCALE == 100

\* LN_SCALE * ln(n) for n = 1, 2, ...: strictly increasing, and additive over
\* products (ln 4 = 2 ln 2, ln 6 = ln 2 + ln 3, ...), so that ln(a/b) is zero
\* exactly when a = b and has the sign of a - b
LnTable == <<0, 69, 110, 138, 161, 179, 195, 207, 220, 230, 240, 248>>

\* math.log(x) of a positive rational x
log(x) == Rat(LnTable[x[1]] - LnTable[x[2]], LN_SCALE)

\* sqrt(r), carried by its radicand
sqrt(r) == [radicand |-> r]

\* x / s for a float x and a square root s: carried by sign(x) * x^2 / radicand
DivBySqrt(x, s) ==
    LET sq == RatDiv(RatMul(x, x), s.radicand)
    IN  IF x[1] < 0 THEN <<-sq[1], sq[2]>> ELSE sq

\* s1 * s2 of two square roots
SqrtMul(s1, s2) == [radicand |-> RatMul(s1.radicand, s2.radicand)]

---------------------------------------------------------------------------
(* TF-IDF and cosine similarity *)

\* calculate_tf_idf, were the idf smoothed: log((total_documents + 1) / doc_freq)
calculate_tf_idf_smoothed(self, term_freq, doc_length, doc_freq) ==
    IF doc_freq = 0 THEN Zero
    ELSE LET tf == IF doc_length > 0 THEN Rat(term_freq, doc_length) ELSE Zero
             idf == log(Rat(self.total_documents + 1, doc_freq))
         IN  RatMul(tf, idf)

\* VectorSearchEngine.calculate_tf_idf
calculate_tf_idf(self, term_freq, doc_length, doc_freq) ==
    IF doc_freq = 0 THEN Zero
    ELSE LET tf == IF doc_length > 0 THEN Rat(term_freq, doc_length) ELSE Zero
             idf == IF doc_freq > 0
                    THEN log(Rat(self.total_documents, doc_freq))
                    ELSE Zero
         IN  RatMul(tf, idf)

\* VectorSearchEngine.vector_magnitude
vector_magnitude(vector) ==
    sqrt(RatSumOver(AsTable([t \in DOMAIN vector |-> RatMul(vector[t], vector[t])]),
                    DOMAIN vector))

\* VectorSearchEngine.cosine_similarity
cosine_similarity(vec1, vec2) ==
    LET common == DOMAIN vec1 \cap DOMAIN vec2
        dot_product ==
            RatSumOver(AsTable([t \in common |-> RatMul(vec1[t], vec2[t])]), common)
        mag1 == vector_magnitude(vec1)
        mag2 == vector_magnitude(vec2)
    IN  IF mag1.radicand = Zero \/ mag2.radicand = Zero THEN Zero
        ELSE DivBySqrt(dot_product, SqrtMul(mag1, mag2))

\* document_frequencies.get(term, 0)
df_get(self, term) ==
    IF term \in DOMAIN self.document_frequencies
    THEN self.document_frequencies[term]
    ELSE 0

\* VectorSearchEngine.create_tfidf_vector
create_tfidf_vector(self, concordance) ==
    LET doc_length == sum_values(concordance)
    IN  AsTable([term \in DOMAIN concordance |->
            calculate_tf_idf(self, concordance[term], doc_length, df_get(self, term))])

---------------------------------------------------------------------------
(* The engine: self is the record of the four instance attributes *)

Self ==
    [documents |-> documents,
     index |-> index,
     document_frequencies |-> document_frequencies,
     total_documents |-> total_documents]

\* VectorSearchEngine.__init__
init_self ==
    [documents |-> <<>>,
     index |-> <<>>,
     document_frequencies |-> <<>>,
     total_documents |-> 0]

\* increment_frequencies, were it to run over the tokens rather than over the
\* distinct terms: a term is counted once per occurrence
increment_frequencies_by_count(df, concordance) ==
    AsTable([t \in DOMAIN df \cup DOMAIN concordance |->
        (IF t \in DOMAIN df THEN df[t] ELSE 0)
            + (IF t \in DOMAIN concordance THEN concordance[t] ELSE 0)])

\* for word in concordance: self.document_frequencies[word] += 1
\* (a defaultdict(int): a missing key starts at 0)
increment_frequencies(df, concordance) ==
    AsTable([t \in DOMAIN df \cup DOMAIN concordance |->
        IF t \in DOMAIN concordance
        THEN (IF t \in DOMAIN df THEN df[t] ELSE 0) + 1
        ELSE df[t]])

\* add_document, were it to store the text before it checks its type
add_document_store_first(self, doc_id, text) ==
    LET stored == [self EXCEPT !.documents = DictSet(@, doc_id, text)]
    IN  IF ~isinstance_str(text)
        THEN [self |-> stored, err |-> "Document text must be a string"]
        ELSE LET concordance == create_concordance(text)
             IN  [self |->
                     [stored EXCEPT
                         !.document_frequencies =
                             increment_frequencies(@, concordance.val),
                         !.index = DictSet(@, doc_id, concordance.val),
                         !.total_documents = Len(stored.documents)],
                  err |-> NoErr]

\* VectorSearchEngine.add_document
add_document(self, doc_id, text) ==
    IF ~isinstance_str(text)
    THEN [self |-> self, err |-> "Document text must be a string"]
    ELSE LET stored == [self EXCEPT !.documents = DictSet(@, doc_id, text)]
             concordance == create_concordance(text)
         IN  IF concordance.err # NoErr
             THEN [self |-> stored, err |-> concordance.err]
             ELSE [self |->
                      [stored EXCEPT
                          !.document_frequencies =
                              increment_frequencies(@, concordance.val),
                          !.index = DictSet(@, doc_id, concordance.val),
                          !.total_documents = Len(stored.documents)],
                   err |-> NoErr]

\* the preview of a stored text: its first characters, and "..." if it is longer
PREVIEW_LEN == 100

preview_of(text) ==
    SlicePrefix(text.val, PREVIEW_LEN)
        \o (IF Len(text.val) > PREVIEW_LEN THEN <<".", ".", ".">> ELSE <<>>)

\* insert_desc, were the sort to lack reverse=True: ascending
RECURSIVE insert_asc(_, _)
insert_asc(sorted, x) ==
    IF sorted = <<>> THEN <<x>>
    ELSE IF RatLess(x[1], Head(sorted)[1])
         THEN <<x>> \o sorted
         ELSE <<Head(sorted)>> \o insert_asc(Tail(sorted), x)

\* results.sort(reverse=True, key=lambda x: x[0]): a stable sort, so entries of
\* equal score keep their order; x goes after the entries whose score is not
\* less than its own
RECURSIVE insert_desc(_, _)
insert_desc(sorted, x) ==
    IF sorted = <<>> THEN <<x>>
    ELSE IF RatLess(Head(sorted)[1], x[1])
         THEN <<x>> \o sorted
         ELSE <<Head(sorted)>> \o insert_desc(Tail(sorted), x)

RECURSIVE sort_desc_from(_, _, _)
sort_desc_from(results, i, sorted) ==
    IF i > Len(results) THEN sorted
    ELSE sort_desc_from(results, i + 1, insert_desc(sorted, results[i]))

sort_desc(results) == sort_desc_from(results, 1, <<>>)

\* the query vector of search: plain term frequency over the query's terms
\* that are keys of document_frequencies
query_vector_of(self, query_concordance) ==
    LET total_query_terms == sum_values(query_concordance)
    IN  AsTable(
            [term \in {t \in DOMAIN query_concordance : t \in DOMAIN self.document_frequencies}
                |-> Rat(query_concordance[term], total_query_terms)])

\* the scoring loop of search over self.index.items(), from entry i on
RECURSIVE score_from(_, _, _, _)
score_from(self, query_vector, i, results) ==
    IF i > Len(self.index) THEN results
    ELSE LET doc_id == self.index[i].key
             doc_vector == create_tfidf_vector(self, self.index[i].value)
             similarity == cosine_similarity(query_vector, doc_vector)
         IN  score_from(self, query_vector, i + 1,
                 IF RatGreater(similarity, Zero)
                 THEN Append(results,
                          <<similarity, doc_id, preview_of(DictGet(self.documents, doc_id))>>)
                 ELSE results)

\* the default of search's max_results
DEFAULT_MAX_RESULTS == 10

\* search, were it to look at the store before it looks at the query
search_empty_index_first(self, query, max_results) ==
    IF Len(self.documents) = 0
    THEN [self |-> self, ret |-> <<>>, err |-> NoErr]
    ELSE IF ~isinstance_str(query) \/ strip(query.val) = <<>>
    THEN [self |-> self, ret |-> <<>>, err |-> "Query must be a non-empty string"]
    ELSE LET query_concordance == create_concordance(query).val
             query_vector == query_vector_of(self, query_concordance)
             results == score_from(self, query_vector, 1, <<>>)
         IN  [self |-> self,
              ret |-> SlicePrefix(sort_desc(results), max_results),
              err |-> NoErr]

\* search, were it to test the query without stripping it
search_no_strip(self, query, max_results) ==
    IF ~isinstance_str(query) \/ query.val = <<>>
    THEN [self |-> self, ret |-> <<>>, err |-> "Query must be a non-empty string"]
    ELSE IF Len(self.documents) = 0
    THEN [self |-> self, ret |-> <<>>, err |-> NoErr]
    ELSE LET query_concordance == create_concordance(query).val
             query_vector == query_vector_of(self, query_concordance)
             results == score_from(self, query_vector, 1, <<>>)
         IN  [self |-> self,
              ret |-> SlicePrefix(sort_desc(results), max_results),
              err |-> NoErr]

\* search, were it to cut the list one entry late: results[:max_results + 1]
search_cut_late(self, query, max_results) ==
    IF ~isinstance_str(query) \/ strip(query.val) = <<>>
    THEN [self |-> self, ret |-> <<>>, err |-> "Query must be a non-empty string"]
    ELSE IF Len(self.documents) = 0
    THEN [self |-> self, ret |-> <<>>, err |-> NoErr]
    ELSE LET query_concordance == create_concordance(query).val
             query_vector == query_vector_of(self, query_concordance)
             results == score_from(self, query_vector, 1, <<>>)
         IN  [self |-> self,
              ret |-> SlicePrefix(sort_desc(results), max_results + 1),
              err |-> NoErr]

\* search, were it to read self.document_frequencies[term] for each term of the
\* query: the defaultdict then gains a key, of value 0, for each term it lacked
search_inserting(self, query, max_results) ==
    IF ~isinstance_str(query) \/ strip(query.val) = <<>>
    THEN [self |-> self, ret |-> <<>>, err |-> "Query must be a non-empty string"]
    ELSE IF Len(self.documents) = 0
    THEN [self |-> self, ret |-> <<>>, err |-> NoErr]
    ELSE LET query_concordance == create_concordance(query).val
             df == self.document_frequencies
             touched == [self EXCEPT !.document_frequencies =
                            AsTable([t \in DOMAIN df \cup DOMAIN query_concordance |->
                                IF t \in DOMAIN df THEN df[t] ELSE 0])]
             query_vector == query_vector_of(touched, query_concordance)
             results == score_from(touched, query_vector, 1, <<>>)
         IN  [self |-> touched,
              ret |-> SlicePrefix(sort_desc(results), max_results),
              err |-> NoErr]

\* VectorSearchEngine.search
search(self, query, max_results) ==
    IF ~isinstance_str(query) \/ strip(query.val) = <<>>
    THEN [self |-> self, ret |-> <<>>, err |-> "Query must be a non-empty string"]
    ELSE IF Len(self.documents) = 0
    THEN [self |-> self, ret |-> <<>>, err |-> NoErr]
    ELSE LET query_concordance == create_concordance(query).val
             query_vector == query_vector_of(self, query_concordance)
             results == score_from(self, query_vector, 1, <<>>)
         IN  [self |-> self,
              ret |-> SlicePrefix(sort_desc(results), max_results),
              err |-> NoErr]

\* round(x, 2), in hundredths: the nearest, and the even one of two equally near
round2(x) ==
    LET scaled == RatMul(x, <<100, 1>>)
        q == scaled[1] \div scaled[2]
        twice == 2 * (scaled[1] % scaled[2])
    IN  IF twice < scaled[2] THEN Rat(q, 100)
        ELSE IF twice > scaled[2] THEN Rat(q + 1, 100)
        ELSE IF q % 2 = 0 THEN Rat(q, 100) ELSE Rat(q + 1, 100)

\* sum(len(self.create_concordance(doc)) for doc in self.documents.values())
RECURSIVE total_terms_from(_, _)
total_terms_from(docs, i) ==
    IF i > Len(docs) THEN 0
    ELSE Cardinality(DOMAIN create_concordance(docs[i].value).val)
             + total_terms_from(docs, i + 1)

\* VectorSearchEngine.get_document_stats
get_document_stats(self) ==
    IF Len(self.documents) = 0
    THEN [self |-> self,
          ret |-> [total_documents |-> 0, unique_terms |-> 0, avg_doc_length |-> Zero],
          err |-> NoErr]
    ELSE LET total_terms == total_terms_from(self.documents, 1)
             avg_length == Rat(total_terms, Len(self.documents))
         IN  [self |-> self,
              ret |-> [total_documents |-> self.total_documents,
                       unique_terms |-> Cardinality(DOMAIN self.document_frequencies),
                       avg_doc_length |-> round2(avg_length)],
              err |-> NoErr]

---------------------------------------------------------------------------
(* The arguments the caller passes *)

TextCatDogCat == PyStr(<<"c","a","t"," ","d","o","g"," ","c","a","t">>)

TextDogBird == PyStr(<<"d","o","g"," ","b","i","r","d">>)

TextCatDogPunct == PyStr(<<"C","a","t",","," ","D","O","G","!">>)

TextEmpty == PyStr(<<>>)

TextBlank == PyStr(<<" ","\t">>)

QueryCat == PyStr(<<"c","a","t">>)

QueryBirdBirdCat == PyStr(<<"B","i","r","d",","," ","b","i","r","d"," ","C","A","T">>)

QueryCatFish == PyStr(<<"c","a","t"," ","f","i","s","h">>)

QueryPunct == PyStr(<<"?","!">>)

\* the text arguments of add_document: documents, and a value that is no str
TextArgs == {TextCatDogCat, TextDogBird, TextCatDogPunct, PyNone}

\* the text arguments when no id is added twice: also a document with no term
DistinctTextArgs == TextArgs \cup {TextEmpty}

\* the query arguments of search: terms of the corpus, a term outside it, no
\* term at all, the empty and the blank string, and a value that is no str
QueryArgs ==
    {QueryCat, QueryBirdBirdCat, QueryCatFish, QueryPunct, TextEmpty, TextBlank, PyNone}

\* the max_results arguments of search: none, one, and the default
MaxResultsArgs == {0, 1, DEFAULT_MAX_RESULTS}

---------------------------------------------------------------------------
(* The state machine: one action per public operation.  last records the    *)
(* latest call: its name, its arguments, what it returned (ret, when err is *)
(* NoErr) and the message of the ValueError it raised (err).                *)

Init ==
    /\ documents = init_self.documents
    /\ index = init_self.index
    /\ document_frequencies = init_self.document_frequencies
    /\ total_documents = init_self.total_documents
    /\ last = [op |-> "__init__"]

SetSelf(self) ==
    /\ documents' = self.documents
    /\ index' = self.index
    /\ document_frequencies' = self.document_frequencies
    /\ total_documents' = self.total_documents

WithinMaxDocFreq(self) ==
    \A t \in DOMAIN self.document_frequencies : self.document_frequencies[t] <= MaxDocFreq

AddDocumentCall(doc_id, text) ==
    LET r == add_document(Self, doc_id, text)
    IN  /\ WithinMaxDocFreq(r.self)
        /\ SetSelf(r.self)
        /\ last' = [op |-> "add_document", doc_id |-> doc_id, text |-> text, err |-> r.err]

\* add_document under any id, stored already or not
AddDocument ==
    \E doc_id \in DocIds, text \in TextArgs : AddDocumentCall(doc_id, text)

\* add_document under an id that is not stored
AddDistinctDocument ==
    \E doc_id \in DocIds \ DictKeys(documents), text \in DistinctTextArgs :
        AddDocumentCall(doc_id, text)

Search ==
    \E query \in QueryArgs, max_results \in MaxResultsArgs :
        LET r == search(Self, query, max_results)
        IN  /\ SetSelf(r.self)
            /\ last' = [op |-> "search", query |-> query, max_results |-> max_results,
                        ret |-> r.ret, err |-> r.err]

GetDocumentStats ==
    LET r == get_document_stats(Self)
    IN  /\ SetSelf(r.self)
        /\ last' = [op |-> "get_document_stats", ret |-> r.ret, err |-> r.err]

Next == AddDocument \/ Search \/ GetDocumentStats

Spec == Init /\ [][Next]_vars

NextDistinct == AddDistinctDocument \/ Search \/ GetDocumentStats

\* the engine when no id is ever added twice
SpecDistinct == Init /\ [][NextDistinct]_vars

---------------------------------------------------------------------------
(* Vocabulary of the properties *)

EngineVars == <<documents, index, document_frequencies, total_documents>>

\* the terms of the stored text of entry i of documents, by the tokenizer
TermsOfText(i) == Range(preprocess_text(documents[i].value).val)

\* the number of stored documents whose term-frequency map contains t
DocsContaining(t) == Cardinality({i \in 1..Len(index) : t \in DOMAIN index[i].value})

AllIndexedTerms == UNION {DOMAIN index[i].value : i \in 1..Len(index)}

\* a query that is a string with a character that is no whitespace
NonBlankQuery(q) == isinstance_str(q) /\ \E i \in 1..Len(q.val) : q.val[i] \notin whitespace

SearchReturned == last.op = "search" /\ last.err = NoErr

\* the similarity of entry i of index to the query of the latest search
SimilarityOf(i) ==
    cosine_similarity(
        query_vector_of(Self, create_concordance(last.query).val),
        create_tfidf_vector(Self, index[i].value))

\* the candidates of the latest search: the entries of index of similarity > 0
Candidates == {i \in 1..Len(index) : RatGreater(SimilarityOf(i), Zero)}

ReturnedIds == {last.ret[j][2] : j \in 1..Len(last.ret)}

---------------------------------------------------------------------------
(* C1: after any sequence of add_document calls, overwrites of a stored id  *)
(* included, the document frequency of every term equals the number of      *)
(* stored documents whose term-frequency map contains the term.             *)
DocFreqMatchesStore ==
    \A t \in DOMAIN document_frequencies \cup AllIndexedTerms :
        df_get(Self, t) = DocsContaining(t)

(* C2: when the documents were added under pairwise distinct ids, every     *)
(* term of the document-frequency map has a frequency between 1 and the     *)
(* number N of documents, equal to the number of the documents whose        *)
(* tokenized text contains the term.                                        *)
DistinctDocFreqCounts ==
    \A t \in DOMAIN document_frequencies :
        /\ 1 <= document_frequencies[t]
        /\ document_frequencies[t] <= Len(documents)
        /\ document_frequencies[t]
               = Cardinality({i \in 1..Len(documents) : t \in TermsOfText(i)})

DistinctDocFreqWitness ==
    /\ Len(documents) = NumDocIds
    /\ \E t \in DOMAIN document_frequencies : document_frequencies[t] = NumDocIds
    /\ \E t \in DOMAIN document_frequencies : document_frequencies[t] = 1
    /\ \E i \in 1..Len(documents) : \E j \in 1..Len(documents[i].value.val) :
           documents[i].value.val[j] \in punctuation

(* C3: in every state reachable by add_document calls, overwrites included, *)
(* every weight of every document TF-IDF vector is non-negative: no term of *)
(* an indexed document has a document frequency above total_documents.      *)
WeightsNonNegative ==
    \A i \in 1..Len(index) :
        LET doc_vector == create_tfidf_vector(Self, index[i].value)
        IN  \A t \in DOMAIN doc_vector :
                /\ ~RatLess(doc_vector[t], Zero)
                /\ df_get(Self, t) <= total_documents

(* C4: the list search returns is non-increasing in score from its first to *)
(* its last entry and holds no entry of score <= 0.                         *)
SearchResultsRanked ==
    SearchReturned =>
        \A j \in 1..Len(last.ret) :
            /\ RatGreater(last.ret[j][1], Zero)
            /\ j < Len(last.ret) => ~RatLess(last.ret[j][1], last.ret[j + 1][1])

\* a search that returned two entries of different scores, the better one
\* being the document added later
SearchResultsRankedWitness ==
    /\ SearchReturned
    /\ Len(last.ret) = 2
    /\ RatGreater(last.ret[1][1], last.ret[2][1])
    /\ last.ret[1][2] = index[2].key

(* C5, as stated: search on an engine with no document returns the empty    *)
(* list whatever the query, and does not fail.                              *)
EmptyIndexSearchNeverFails ==
    (last.op = "search" /\ Len(documents) = 0) =>
        (last.err = NoErr /\ last.ret = <<>>)

(* C5, amended: search on an engine with no document returns the empty list *)
(* for every query that is a string with a non-whitespace character, and    *)
(* fails with "Query must be a non-empty string" for every other query.     *)
EmptyIndexSearch ==
    (last.op = "search" /\ Len(documents) = 0) =>
        IF NonBlankQuery(last.query)
        THEN last.err = NoErr /\ last.ret = <<>>
        ELSE last.err = "Query must be a non-empty string"

EmptyIndexSearchWitness ==
    /\ last.op = "search"
    /\ Len(documents) = 0
    /\ last.query = QueryCat
    /\ last.err = NoErr
    /\ last.ret = <<>>

(* C6: search with a query that is empty or only whitespace fails with the  *)
(* error "Query must be a non-empty string" in every index state, and the   *)
(* index state is as it was before the call.                                *)
BlankQueryFails ==
    [][(last'.op = "search" /\ isinstance_str(last'.query) /\ ~NonBlankQuery(last'.query))
          => (last'.err = "Query must be a non-empty string" /\ UNCHANGED EngineVars)]_vars

BlankQueryFailsWitness ==
    /\ last.op = "search"
    /\ last.query = TextBlank
    /\ last.err = "Query must be a non-empty string"
    /\ Len(documents) > 0

(* C7: add_document with a text that is no string fails with the error      *)
(* "Document text must be a string" and changes nothing; with a string it   *)
(* stores the text, stores its term-frequency map, increments the document  *)
(* frequency of each of its terms and sets total_documents to the size of   *)
(* the store, all in the one call: in every state the store and the index   *)
(* hold the same ids, each map is that of the stored text, every indexed    *)
(* term has a document frequency, and total_documents is the store's size.  *)
AddDocumentAllOrNothing ==
    /\ [](/\ [i \in 1..Len(documents) |-> documents[i].key]
                 = [i \in 1..Len(index) |-> index[i].key]
          /\ \A i \in 1..Len(documents) :
                 /\ isinstance_str(documents[i].value)
                 /\ index[i].value = create_concordance(documents[i].value).val
          /\ \A t \in AllIndexedTerms : df_get(Self, t) >= 1
          /\ total_documents = Len(documents))
    /\ [][(last'.op = "add_document" /\ ~isinstance_str(last'.text))
             => (last'.err = "Document text must be a string" /\ UNCHANGED EngineVars)]_vars
    /\ [][(last'.op = "add_document" /\ isinstance_str(last'.text))
             => LET concordance == create_concordance(last'.text).val
                IN  /\ last'.err = NoErr
                    /\ DictGet(documents', last'.doc_id) = last'.text
                    /\ DictGet(index', last'.doc_id) = concordance
                    /\ \A t \in DOMAIN document_frequencies' :
                           document_frequencies'[t]
                               = df_get(Self, t) + (IF t \in DOMAIN concordance THEN 1 ELSE 0)
                    /\ DOMAIN concordance \subseteq DOMAIN document_frequencies'
                    /\ total_documents' = Len(documents')]_vars

AddDocumentAllOrNothingWitness ==
    /\ last.op = "add_document"
    /\ last.text = PyNone
    /\ last.err = "Document text must be a string"
    /\ Len(documents) > 0

(* C8: for a max_results >= 0, search returns at most max_results entries:  *)
(* the first min(max_results, k) of the k candidates (the documents of      *)
(* similarity > 0) in descending order of score; at most 10 by default.     *)
SearchTruncates ==
    (SearchReturned /\ last.max_results >= 0 /\ Len(documents) > 0) =>
        LET k == Cardinality(Candidates)
            n == Len(last.ret)
        IN  /\ n <= last.max_results
            /\ n = Min(last.max_results, k)
            \* the entries are distinct candidates, with their scores
            /\ \A j \in 1..n :
                   \E i \in Candidates :
                       /\ last.ret[j][2] = index[i].key
                       /\ last.ret[j][1] = SimilarityOf(i)
            /\ Cardinality(ReturnedIds) = n
            \* in descending order
            /\ \A j \in 1..(n - 1) : ~RatLess(last.ret[j][1], last.ret[j + 1][1])
            \* and no candidate left out scores more than one returned
            /\ \A i \in Candidates :
                   index[i].key \notin ReturnedIds =>
                       \A j \in 1..n : ~RatLess(last.ret[j][1], SimilarityOf(i))

\* a search cut to one entry of two candidates
SearchTruncatesWitness ==
    /\ SearchReturned
    /\ last.max_results = 1
    /\ Cardinality(Candidates) = 2
    /\ Len(last.ret) = 1

(* C9: when the documents were added under pairwise distinct ids and        *)
(* max_results is at least their number, search returns a document exactly  *)
(* when its term-frequency map shares with the query a term whose document  *)
(* frequency is less than total_documents.  With "cat dog cat" and          *)
(* "dog bird" the query "cat" returns the first only, with a score > 0.     *)
SearchReturnsSharedRareTerm ==
    /\ (SearchReturned /\ Len(documents) > 0 /\ last.max_results >= Len(documents)) =>
           LET query_terms == Range(preprocess_text(last.query).val)
           IN  ReturnedIds =
                   {index[i].key : i \in
                       {i \in 1..Len(index) :
                           \E t \in DOMAIN index[i].value \cap query_terms :
                               document_frequencies[t] < total_documents}}
    /\ (/\ SearchReturned
        /\ last.query = QueryCat
        /\ last.max_results >= 1
        /\ Len(documents) = 2
        /\ documents[1].value = TextCatDogCat
        /\ documents[2].value = TextDogBird) =>
           /\ Len(last.ret) = 1
           /\ last.ret[1][2] = documents[1].key
           /\ RatGreater(last.ret[1][1], Zero)

SearchReturnsSharedRareTermWitness ==
    /\ SearchReturned
    /\ last.query = QueryCat
    /\ last.max_results = DEFAULT_MAX_RESULTS
    /\ Len(documents) = 2
    /\ documents[1].value = TextCatDogCat
    /\ documents[2].value = TextDogBird
    /\ Len(last.ret) = 1

(* C10: search and get_document_stats change neither the document store,    *)
(* nor the term-frequency maps, nor the document-frequency map and its      *)
(* keys, nor total_documents, whatever the argument and whether or not the  *)
(* call fails; the same search made again right away returns the same.      *)
QueriesAreReadOnly ==
    [][/\ last'.op \in {"search", "get_document_stats"} => UNCHANGED EngineVars
       /\ (/\ last.op = "search"
           /\ last'.op = "search"
           /\ last'.query = last.query
           /\ last'.max_results = last.max_results)
              => (last'.ret = last.ret /\ last'.err = last.err)]_vars

\* a search that returned a document for a query with a term outside the corpus
QueriesAreReadOnlyWitness ==
    /\ SearchReturned
    /\ last.query = QueryCatFish
    /\ Len(last.ret) > 0
    /\ <<"f", "i", "s", "h">> \notin DOMAIN document_frequencies

====
